---- MODULE Spec2Model ----
(***************************************************************************)
(* A model of workua_cv_updater/__main__.py: the durable update tracker,   *)
(* the jittered event streams and their merge, the browser guard and the   *)
(* update loop with its signal handling.                                   *)
(*                                                                         *)
(* Time is a natural number of seconds.  Five specifications share the     *)
(* variables:                                                              *)
(*   Spec         the process started by main(), in either command mode;   *)
(*   RestartSpec  that process in update mode, ended after a failed        *)
(*                dispatch and started again on the same store;            *)
(*   LiveSpec     the update loop with the fairness of a running process;  *)
(*   TrackerSpec  the UpdateTracker object driven by arbitrary calls;      *)
(*   StreamSpec   the Scheduler._event_stream generators, pulled one entry *)
(*                at a time, with the interval constants of the source.    *)
(***************************************************************************)
EXTENDS Integers, Sequences, FiniteSets, TLC

VARIABLES
    clock,        \* the value time() returns
    db,           \* table update_ts: name -> value, Absent when the row is missing
    conn,         \* UpdateTracker._conn: "none" before __init__, "open", "closed"
    mode,         \* args.cmd: "login" or "update"
    pc,           \* the position of the process
    last,         \* update_loop's locals last_login / last_update, by kind
    head,         \* the local t of each _event_stream generator (NoTime before its first yield)
    ev,           \* the ScheduleEntry the loop holds (NoEvent before the first)
    acquired,     \* managed_browser: browser_factory.new() returned for this dispatch
    quits,        \* managed_browser: number of browser.quit() calls for this dispatch
    outcome,      \* what the action executor did in this dispatch
    capture,      \* managed_browser's logging: "none", "saved" / "failed" (the
                  \* except branch), "logged" (the else branch)
    live,         \* browser sessions created by new() and not yet quit
    exc,          \* the exception in flight ("none" when there is none)
    origin,       \* the call that raised it: "new", "executor", "capture", "log",
                  \* "quit", "tracker", "signal" ("none" when there is none)
    pre,          \* the tracker value of the dispatched kind when the dispatch began
    interrupted,  \* sig_handler raised KeyboardInterrupt during the current dispatch or wait
    restarted,    \* RestartSpec: what the previous process left behind (NoRestart in a first run)
    call,         \* TrackerSpec: the last call made on the tracker
    emitted       \* StreamSpec: entries pulled from each generator

vars == <<clock, db, conn, mode, pc, last, head, ev, acquired, quits, outcome,
          capture, live, exc, origin, pre, interrupted, restarted, call,
          emitted>>

(***************************************************************************)
(* Bounds of the model.                                                    *)
(***************************************************************************)
MaxClock == 7          \* Spec: the clock stops advancing here
MaxStored == 2         \* Spec, TrackerSpec: largest value found in the store at start
MaxStart == 1          \* Spec: largest clock value at process start
MaxTs == 4             \* TrackerSpec: largest timestamp passed to update()/login()
MaxActionTime == 2     \* Spec: longest clock advance while the executor runs
MaxSkew == 1           \* Spec: largest backward step of the clock while the executor runs
MaxEmit == 3           \* StreamSpec: entries pulled from one generator

Absent == 0 - 1
NoTime == 0 - 1
NoEvent == [when |-> NoTime, what |-> "none"]
NoCall == [op |-> "none", ts |-> 0]
NoRestart == [kind |-> "none", value |-> NoTime]

Max(a, b) == IF a >= b THEN a ELSE b
Min(a, b) == IF a <= b THEN a ELSE b

(***************************************************************************)
(* ScheduledEvent and the tracker rows.                                    *)
(***************************************************************************)
Kinds == {"REFRESH", "UPDATE"}
Keys == {"last", "login"}

\* update_loop pairs REFRESH with tracker.login() and UPDATE with tracker.update()
KeyOf(kind) == IF kind = "REFRESH" THEN "login" ELSE "last"

(***************************************************************************)
(* UpdateTracker                                                           *)
(***************************************************************************)
\* __init__: INSERT the row with value 0 when the SELECT finds none
TrackerInitRowsOverwrite(d) == [k \in Keys |-> 0]
TrackerInitRows(d) == [k \in Keys |-> IF d[k] = Absent THEN 0 ELSE d[k]]

\* UPDATE update_ts SET value = ts WHERE name = key AND value < ts
\* (a missing row matches nothing)
TrackerWriteUnconditional(d, key, ts) == [d EXCEPT ![key] = ts]
TrackerWrite(d, key, ts) ==
    [d EXCEPT ![key] = IF @ # Absent /\ @ < ts THEN ts ELSE @]

\* last_update() / last_login(): SELECT value ... fetchone()[0]
TrackerRead(d, key) == d[key]

(***************************************************************************)
(* Exceptions.  TimeoutException is selenium's subclass of                 *)
(* WebDriverException (imported together at lines 23-27); "Exception" is   *)
(* any other subclass of Exception (a timeout of the driver's transport,   *)
(* an OSError); KeyboardInterrupt is a BaseException.                      *)
(***************************************************************************)
Failures == {"Exception", "WebDriverException", "TimeoutException", "sqlite3.Error"}
ExecutorFailures == {"Exception", "WebDriverException", "TimeoutException"}
BrowserFailures == {"Exception", "WebDriverException"}
IsWebDriverException(e) == e \in {"WebDriverException", "TimeoutException"}

(***************************************************************************)
(* Interval constants (lines 38-43) and the table Scheduler._iter_events   *)
(* passes to the two streams.  Spec runs the loop on ModelIntervals, the   *)
(* same table scaled down so that several entries of both kinds fall       *)
(* below MaxClock; StreamSpec uses the values of the source.               *)
(***************************************************************************)
UPDATE_INTERVAL == 604800
UPDATE_INTERVAL_MIN_DRIFT == 10
UPDATE_INTERVAL_MAX_DRIFT == 60
SESSION_REFRESH_INTERVAL == 3600
SESSION_REFRESH_INTERVAL_MIN_DRIFT == 10
SESSION_REFRESH_INTERVAL_MAX_DRIFT == 60

SourceIntervals ==
    [REFRESH |-> [base |-> SESSION_REFRESH_INTERVAL,
                  min_drift |-> SESSION_REFRESH_INTERVAL_MIN_DRIFT,
                  max_drift |-> SESSION_REFRESH_INTERVAL_MAX_DRIFT],
     UPDATE  |-> [base |-> UPDATE_INTERVAL,
                  min_drift |-> UPDATE_INTERVAL_MIN_DRIFT,
                  max_drift |-> UPDATE_INTERVAL_MAX_DRIFT]]

ModelIntervals ==
    [REFRESH |-> [base |-> 1, min_drift |-> 1, max_drift |-> 2],
     UPDATE  |-> [base |-> 3, min_drift |-> 1, max_drift |-> 2]]

(***************************************************************************)
(* Scheduler                                                               *)
(***************************************************************************)
\* random_interval: base + min_drift + random() * (max_drift - min_drift).
\* random() is in [0, 1); float rounding of the sum can reach the upper end,
\* so the whole closed range is taken.
RandomInterval(base, min_drift, max_drift) ==
    {base + min_drift + d : d \in 0..(max_drift - min_drift)}

IntervalOf(iv) == RandomInterval(iv.base, iv.min_drift, iv.max_drift)

\* _event_stream, first yield: t = max(last_occured + random_interval(...), time())
EventStreamFirstUnclamped(last_occured, r, now) == last_occured + r
EventStreamFirst(last_occured, r, now) == Max(last_occured + r, now)

\* _event_stream, later yields: t += random_interval(...)
EventStreamNextReclamped(t, r, now) == Max(t + r, now)
EventStreamNext(t, r, now) == t + r

\* heapq.merge(refresh_stream, update_stream, key=when): the heap orders the
\* pending heads by (when, index of the stream in the argument list)
StreamIndex(kind) == IF kind = "REFRESH" THEN 0 ELSE 1

PrecedesLaterStreamFirst(h, a, b) ==
    h[a] < h[b] \/ (h[a] = h[b] /\ StreamIndex(a) >= StreamIndex(b))
Precedes(h, a, b) ==
    h[a] < h[b] \/ (h[a] = h[b] /\ StreamIndex(a) <= StreamIndex(b))

MergeMinFirstStream(h) == "REFRESH"
MergeMin(h) == CHOOSE k \in Kinds : \A j \in Kinds : Precedes(h, k, j)

Entry(h, kind) == [when |-> h[kind], what |-> kind]

(***************************************************************************)
(* The process: main() and update_loop().                                  *)
(***************************************************************************)
schedVars == <<last, head, ev>>
guardVars == <<acquired, quits, outcome, capture, live>>
excVars == <<exc, origin>>
specOnly == <<restarted, call, emitted>>

\* the tracker row the running command records into: tracker.login() for the
\* login command and for REFRESH, tracker.update() for UPDATE
CurrentKeyAlwaysLogin == "login"
CurrentKey == IF mode = "login" THEN "login" ELSE KeyOf(ev.what)

\* update_loop lines 372-375: KeyboardInterrupt is re-raised, any Exception is
\* logged and swallowed
LoopCatchesWebDriverOnly(e) == IsWebDriverException(e)
LoopCatches(e) == e # "KeyboardInterrupt"

\* where control goes when exception e leaves the try body of the running
\* command: update_loop's handlers (372-375), or main's `except
\* KeyboardInterrupt` around the login command (408-409) and then its finally
RaisedPc(e) ==
    IF mode = "update"
    THEN IF LoopCatches(e) THEN "failed" ELSE "loop_exit"
    ELSE "closing"

RaisedExc(e) ==
    IF mode = "login" /\ e = "KeyboardInterrupt" THEN "none" ELSE e

Init ==
    /\ clock \in 0..MaxStart
    /\ db \in [Keys -> {Absent} \cup 0..MaxStored]
    /\ conn = "none"
    /\ mode \in {"login", "update"}
    /\ pc = "main"
    /\ last = [k \in Kinds |-> NoTime]
    /\ head = [k \in Kinds |-> NoTime]
    /\ ev = NoEvent
    /\ acquired = FALSE
    /\ quits = 0
    /\ outcome = "none"
    /\ capture = "none"
    /\ live = 0
    /\ exc = "none"
    /\ origin = "none"
    /\ pre = NoTime
    /\ interrupted = FALSE
    /\ restarted = NoRestart
    /\ call = NoCall
    /\ emitted = [k \in Kinds |-> 0]

\* main, lines 397-413: open the tracker, then branch on args.cmd
MainOpenTracker ==
    /\ pc = "main"
    /\ conn' = "open"
    /\ db' = TrackerInitRows(db)
    /\ pc' = IF mode = "login" THEN "acquire" ELSE "loop_start"
    /\ pre' = IF mode = "login" THEN db'["login"] ELSE pre
    /\ UNCHANGED <<clock, mode, schedVars, guardVars, excVars, interrupted, specOnly>>

\* update_loop, lines 348-349
LoopStart ==
    /\ pc = "loop_start"
    /\ last' = [k \in Kinds |-> TrackerRead(db, KeyOf(k))]
    /\ pc' = "sched"
    /\ UNCHANGED <<clock, db, conn, mode, head, ev, guardVars, excVars, pre,
                   interrupted, specOnly>>

\* line 354, first next(): heapq.merge pulls the first entry of the REFRESH
\* stream and then of the UPDATE stream (each reads time(), the second read
\* may fall a second later), and yields the smaller
SchedStart ==
    /\ pc = "sched"
    /\ \E rR \in IntervalOf(ModelIntervals["REFRESH"]),
          rU \in IntervalOf(ModelIntervals["UPDATE"]),
          now2 \in clock..Min(clock + 1, MaxClock) :
          /\ head' = [k \in Kinds |->
                        IF k = "REFRESH"
                        THEN EventStreamFirst(last[k], rR, clock)
                        ELSE EventStreamFirst(last[k], rU, now2)]
          /\ clock' = now2
    /\ ev' = Entry(head', MergeMin(head'))
    /\ pc' = "wait"
    /\ UNCHANGED <<db, conn, mode, last, guardVars, excVars, pre, interrupted, specOnly>>

SchedNextRetriesFailed ==
    /\ pc \in {"recorded", "failed"}
    /\ IF pc = "failed"
       THEN head' = head
       ELSE \E r \in IntervalOf(ModelIntervals[ev.what]) :
               head' = [head EXCEPT ![ev.what] = EventStreamNext(@, r, clock)]
    /\ ev' = Entry(head', MergeMin(head'))
    /\ pc' = "wait"
    /\ acquired' = FALSE
    /\ quits' = 0
    /\ outcome' = "none"
    /\ capture' = "none"
    /\ exc' = "none"
    /\ origin' = "none"
    /\ pre' = NoTime
    /\ interrupted' = FALSE
    /\ UNCHANGED <<clock, db, conn, mode, last, live, specOnly>>

\* line 354, later next(): the stream whose entry was just consumed is
\* advanced (lines 305-307) and the merge yields the smaller head.  Reached
\* from the end of the try statement: after the tracker write (363/371) or
\* after the generic handler (375).
SchedNext ==
    /\ pc \in {"recorded", "failed"}
    /\ \E r \in IntervalOf(ModelIntervals[ev.what]) :
          head' = [head EXCEPT ![ev.what] = EventStreamNext(@, r, clock)]
    /\ ev' = Entry(head', MergeMin(head'))
    /\ pc' = "wait"
    /\ acquired' = FALSE
    /\ quits' = 0
    /\ outcome' = "none"
    /\ capture' = "none"
    /\ exc' = "none"
    /\ origin' = "none"
    /\ pre' = NoTime
    /\ interrupted' = FALSE
    /\ UNCHANGED <<clock, db, conn, mode, last, live, specOnly>>

\* wall_clock_wait, line 57: time() >= when, the wait returns and the try
\* statement of line 358 is entered
WaitDueWithinPrecision ==
    /\ pc = "wait"
    /\ clock + 1 >= ev.when
    /\ pc' = "acquire"
    /\ pre' = db[KeyOf(ev.what)]
    /\ UNCHANGED <<clock, db, conn, mode, schedVars, guardVars, excVars,
                   interrupted, specOnly>>

WaitDue ==
    /\ pc = "wait"
    /\ clock >= ev.when
    /\ pc' = "acquire"
    /\ pre' = db[KeyOf(ev.what)]
    /\ UNCHANGED <<clock, db, conn, mode, schedVars, guardVars, excVars,
                   interrupted, specOnly>>

\* wall_clock_wait, lines 57-58: time() < when, sleep(1.) returns after at
\* least a second, or much later when the machine was suspended
WaitSleep ==
    /\ pc = "wait"
    /\ clock < ev.when
    /\ \E t \in (clock + 1)..MaxClock : clock' = t
    /\ UNCHANGED <<db, conn, mode, pc, schedVars, guardVars, excVars, pre,
                   interrupted, specOnly>>

\* sig_handler (377-378) runs while the loop is in lines 354-357, outside the
\* try statement: KeyboardInterrupt leaves update_loop
WaitInterrupt ==
    /\ pc = "wait"
    /\ exc' = "KeyboardInterrupt"
    /\ origin' = "signal"
    /\ interrupted' = TRUE
    /\ pc' = "loop_exit"
    /\ UNCHANGED <<clock, db, conn, mode, schedVars, guardVars, pre, specOnly>>

(***************************************************************************)
(* managed_browser, entered by the with statements of lines 361, 366, 405. *)
(* Every call into the browser either returns, raises, or is cut short by  *)
(* sig_handler raising KeyboardInterrupt.                                  *)
(***************************************************************************)
OriginOf(e, where) == IF e = "KeyboardInterrupt" THEN "signal" ELSE where

\* line 328: browser_factory.new() returns a session
AcquireOk ==
    /\ pc = "acquire"
    /\ acquired' = TRUE
    /\ live' = live + 1
    /\ pc' = "body"
    /\ UNCHANGED <<clock, db, conn, mode, schedVars, quits, outcome, capture,
                   excVars, pre, interrupted, specOnly>>

\* line 328: browser_factory.new() raises, before the try of line 329
AcquireRaise ==
    /\ pc = "acquire"
    /\ \E e \in BrowserFailures \cup {"KeyboardInterrupt"} :
          /\ exc' = RaisedExc(e)
          /\ origin' = OriginOf(e, "new")
          /\ pc' = RaisedPc(e)
          /\ interrupted' = (e = "KeyboardInterrupt")
    /\ UNCHANGED <<clock, db, conn, mode, schedVars, guardVars, pre, specOnly>>

\* the clock while the executor runs: it advances, or is stepped back by a
\* correction of the system time
ExecutorClock(now) ==
    {t \in 0..MaxClock : now - MaxSkew <= t /\ t <= now + MaxActionTime}

\* line 330 with the with-body: refresh() (362), update() (368, whose
\* except of 369-370 re-raises) or login() (406) returns
BodyReturn ==
    /\ pc = "body"
    /\ clock' \in ExecutorClock(clock)
    /\ outcome' = "ok"
    /\ pc' = "guard_else"
    /\ UNCHANGED <<db, conn, mode, schedVars, acquired, quits, capture, live,
                   excVars, pre, interrupted, specOnly>>

\* after the with-body raised e, the generator is resumed at line 330 with
\* it: only a WebDriverException enters the except of line 331
GuardEntersExceptExactClass(e) == e = "WebDriverException"
GuardEntersExcept(e) == IsWebDriverException(e)

BodyRaiseUnguarded ==
    /\ pc = "body"
    /\ clock' \in ExecutorClock(clock)
    /\ \E e \in ExecutorFailures \cup {"KeyboardInterrupt"} :
          /\ outcome' = e
          /\ exc' = RaisedExc(e)
          /\ origin' = OriginOf(e, "executor")
          /\ interrupted' = (e = "KeyboardInterrupt")
          /\ pc' = IF IsWebDriverException(e) THEN "guard_except" ELSE RaisedPc(e)
    /\ UNCHANGED <<db, conn, mode, schedVars, acquired, quits, capture, live, pre,
                   specOnly>>

\* the with-body raises
BodyRaise ==
    /\ pc = "body"
    /\ clock' \in ExecutorClock(clock)
    /\ \E e \in ExecutorFailures \cup {"KeyboardInterrupt"} :
          /\ outcome' = e
          /\ exc' = e
          /\ origin' = OriginOf(e, "executor")
          /\ interrupted' = (e = "KeyboardInterrupt")
          /\ pc' = IF GuardEntersExcept(e) THEN "guard_except" ELSE "guard_finally"
    /\ UNCHANGED <<db, conn, mode, schedVars, acquired, quits, capture, live, pre,
                   specOnly>>

\* lines 332-339: current_url, get_cookies and save_screenshot all return,
\* the screenshot is written and the bare raise re-raises the exception
GuardExceptSaved ==
    /\ pc = "guard_except"
    /\ capture' = "saved"
    /\ pc' = "guard_finally"
    /\ UNCHANGED <<clock, db, conn, mode, schedVars, acquired, quits, outcome,
                   live, excVars, pre, interrupted, specOnly>>

\* lines 332-338: one of the calls raises (the new exception replaces the one
\* being handled) or KeyboardInterrupt arrives; with KeyboardInterrupt the
\* screenshot may or may not have been written already
GuardExceptRaise ==
    /\ pc = "guard_except"
    /\ \E e \in BrowserFailures \cup {"KeyboardInterrupt"} :
          /\ exc' = e
          /\ origin' = OriginOf(e, "capture")
          /\ interrupted' = (e = "KeyboardInterrupt")
          /\ capture' \in IF e = "KeyboardInterrupt"
                          THEN {"saved", "failed"} ELSE {"failed"}
    /\ pc' = "guard_finally"
    /\ UNCHANGED <<clock, db, conn, mode, schedVars, acquired, quits, outcome,
                   live, pre, specOnly>>

\* lines 340-342: the arguments of the debug log, current_url and
\* get_cookies, return and the location and cookies are logged at DEBUG
GuardElseOkNoLog ==
    /\ pc = "guard_else"
    /\ pc' = "guard_finally"
    /\ UNCHANGED <<clock, db, conn, mode, schedVars, guardVars, excVars, pre,
                   interrupted, specOnly>>

GuardElseOk ==
    /\ pc = "guard_else"
    /\ capture' = "logged"
    /\ pc' = "guard_finally"
    /\ UNCHANGED <<clock, db, conn, mode, schedVars, acquired, quits, outcome,
                   live, excVars, pre, interrupted, specOnly>>

\* lines 340-342: one of them raises; an exception of the else branch is not
\* handled by the except of line 331
GuardElseRaise ==
    /\ pc = "guard_else"
    /\ \E e \in BrowserFailures \cup {"KeyboardInterrupt"} :
          /\ exc' = e
          /\ origin' = OriginOf(e, "log")
          /\ interrupted' = (e = "KeyboardInterrupt")
    /\ pc' = "guard_finally"
    /\ UNCHANGED <<clock, db, conn, mode, schedVars, guardVars, pre, specOnly>>

\* lines 343-344: browser.quit() returns; the exception in flight, if any,
\* goes on to the caller
GuardFinallyKeepsSession ==
    /\ pc = "guard_finally"
    /\ IF exc = "none"
       THEN /\ pc' = "record"
            /\ exc' = exc
       ELSE /\ pc' = RaisedPc(exc)
            /\ exc' = RaisedExc(exc)
    /\ UNCHANGED <<clock, db, conn, mode, schedVars, guardVars,
                   origin, pre, interrupted, specOnly>>

GuardFinallyQuit ==
    /\ pc = "guard_finally"
    /\ quits' = quits + 1
    /\ live' = live - 1
    /\ IF exc = "none"
       THEN /\ pc' = "record"
            /\ exc' = exc
       ELSE /\ pc' = RaisedPc(exc)
            /\ exc' = RaisedExc(exc)
    /\ UNCHANGED <<clock, db, conn, mode, schedVars, acquired, outcome, capture,
                   origin, pre, interrupted, specOnly>>

\* lines 343-344: browser.quit() raises: an exception raised in a finally
\* block replaces the one in flight
GuardFinallyRaise ==
    /\ pc = "guard_finally"
    /\ quits' = quits + 1
    /\ live' = live - 1
    /\ \E e \in BrowserFailures \cup {"KeyboardInterrupt"} :
          /\ exc' = RaisedExc(e)
          /\ origin' = OriginOf(e, "quit")
          /\ pc' = RaisedPc(e)
          /\ interrupted' = (interrupted \/ e = "KeyboardInterrupt")
    /\ UNCHANGED <<clock, db, conn, mode, schedVars, acquired, outcome, capture,
                   pre, specOnly>>

(***************************************************************************)
(* After the guard: the tracker write, the handlers and the way out.       *)
(***************************************************************************)
\* lines 363, 371, 407: tracker.login(time()) / tracker.update(time()) commits
RecordOk ==
    /\ pc = "record"
    /\ db' = TrackerWrite(db, CurrentKey, clock)
    /\ pc' = IF mode = "update" THEN "recorded" ELSE "closing"
    /\ UNCHANGED <<clock, conn, mode, schedVars, guardVars, excVars, pre,
                   interrupted, specOnly>>

\* the write raises sqlite3.Error: `with c` (274, 280) rolls the transaction
\* back and the exception goes to the handlers of the running command
RecordRaiseCommitted ==
    /\ pc = "record"
    /\ db' = TrackerWrite(db, CurrentKey, clock)
    /\ exc' = RaisedExc("sqlite3.Error")
    /\ origin' = "tracker"
    /\ pc' = RaisedPc("sqlite3.Error")
    /\ UNCHANGED <<clock, conn, mode, schedVars, guardVars, pre,
                   interrupted, specOnly>>

RecordRaise ==
    /\ pc = "record"
    /\ exc' = RaisedExc("sqlite3.Error")
    /\ origin' = "tracker"
    /\ pc' = RaisedPc("sqlite3.Error")
    /\ UNCHANGED <<clock, db, conn, mode, schedVars, guardVars, pre,
                   interrupted, specOnly>>

\* KeyboardInterrupt arrives during the write: before the commit the
\* transaction is rolled back, after it the value stays
RecordInterrupt ==
    /\ pc = "record"
    /\ db' \in {db, TrackerWrite(db, CurrentKey, clock)}
    /\ exc' = RaisedExc("KeyboardInterrupt")
    /\ origin' = "signal"
    /\ pc' = RaisedPc("KeyboardInterrupt")
    /\ interrupted' = TRUE
    /\ UNCHANGED <<clock, conn, mode, schedVars, guardVars, pre, specOnly>>

\* main, lines 413-417: update_loop was left by an exception; `except
\* KeyboardInterrupt: pass` clears it, anything else stays in flight
LoopExit ==
    /\ pc = "loop_exit"
    /\ exc' = IF exc = "KeyboardInterrupt" THEN "none" ELSE exc
    /\ pc' = "closing"
    /\ UNCHANGED <<clock, db, conn, mode, schedVars, guardVars, origin, pre,
                   interrupted, specOnly>>

\* main, lines 418-419 with UpdateTracker.close (284-286); the process ends,
\* with a traceback and error status when an exception is still in flight
MainClose ==
    /\ pc = "closing"
    /\ conn' = "closed"
    /\ pc' = "exit"
    /\ UNCHANGED <<clock, db, mode, schedVars, guardVars, excVars, pre,
                   interrupted, specOnly>>

Next ==
    \/ MainOpenTracker
    \/ LoopStart
    \/ SchedStart
    \/ SchedNext
    \/ WaitDue
    \/ WaitSleep
    \/ WaitInterrupt
    \/ AcquireOk
    \/ AcquireRaise
    \/ BodyReturn
    \/ BodyRaise
    \/ GuardExceptSaved
    \/ GuardExceptRaise
    \/ GuardElseOk
    \/ GuardElseRaise
    \/ GuardFinallyQuit
    \/ GuardFinallyRaise
    \/ RecordOk
    \/ RecordRaise
    \/ RecordInterrupt
    \/ LoopExit
    \/ MainClose

Spec == Init /\ [][Next]_vars

(***************************************************************************)
(* RestartSpec: the process of Spec, ended once and started again on the   *)
(* same store file at the same or a later clock value.                     *)
(***************************************************************************)
\* The process ends while the handler of line 375 runs, after a failed
\* dispatch (it is killed, or the machine goes down), and main() is started
\* again in update mode: the table update_ts is all that is kept.
RestartOnEmptyStore ==
    /\ restarted = NoRestart
    /\ mode = "update"
    /\ pc = "failed"
    /\ restarted' = [kind |-> ev.what, value |-> db[KeyOf(ev.what)]]
    /\ \E t \in clock..MaxClock : clock' = t
    /\ db' = [k \in Keys |-> Absent]
    /\ conn' = "none"
    /\ pc' = "main"
    /\ last' = [k \in Kinds |-> NoTime]
    /\ head' = [k \in Kinds |-> NoTime]
    /\ ev' = NoEvent
    /\ acquired' = FALSE
    /\ quits' = 0
    /\ outcome' = "none"
    /\ capture' = "none"
    /\ live' = 0
    /\ exc' = "none"
    /\ origin' = "none"
    /\ pre' = NoTime
    /\ interrupted' = FALSE
    /\ UNCHANGED <<mode, call, emitted>>

Restart ==
    /\ restarted = NoRestart
    /\ mode = "update"
    /\ pc = "failed"
    /\ restarted' = [kind |-> ev.what, value |-> db[KeyOf(ev.what)]]
    /\ \E t \in clock..MaxClock : clock' = t
    /\ conn' = "none"
    /\ pc' = "main"
    /\ last' = [k \in Kinds |-> NoTime]
    /\ head' = [k \in Kinds |-> NoTime]
    /\ ev' = NoEvent
    /\ acquired' = FALSE
    /\ quits' = 0
    /\ outcome' = "none"
    /\ capture' = "none"
    /\ live' = 0
    /\ exc' = "none"
    /\ origin' = "none"
    /\ pre' = NoTime
    /\ interrupted' = FALSE
    /\ UNCHANGED <<db, mode, call, emitted>>

\* the first process is followed to its end; the restarted one through the
\* construction of its streams and the wait for its first entry
RestartNext ==
    \/ /\ restarted = NoRestart
       /\ Next
    \/ Restart
    \/ /\ restarted # NoRestart
       /\ \/ MainOpenTracker
          \/ LoopStart
          \/ SchedStart
          \/ WaitSleep
          \/ WaitDue

RestartInit ==
    /\ Init
    /\ mode = "update"

RestartSpec == RestartInit /\ [][RestartNext]_vars

(***************************************************************************)
(* LiveSpec: the update loop as a running process.  The interpreter keeps  *)
(* executing the single thread, so a step of the program itself is taken   *)
(* whenever one is possible; in the wait that step is the return of        *)
(* sleep() with a larger clock value.  A signal may arrive at any time but *)
(* never has to.                                                           *)
(***************************************************************************)
\* a step of the program in which sig_handler does not run
OwnStep == Next /\ ~interrupted'

\* the update command, on a store whose rows are missing or hold the
\* largest stored value
LiveInit ==
    /\ Init
    /\ mode = "update"
    /\ db \in [Keys -> {Absent, MaxStored}]

LiveSpec == LiveInit /\ [][Next]_vars /\ WF_vars(OwnStep)

(***************************************************************************)
(* TrackerSpec: an UpdateTracker over a store file in any state, opened,   *)
(* written with arbitrary timestamps, closed and opened again.             *)
(***************************************************************************)
Idle ==
    /\ mode = "update"
    /\ head = [k \in Kinds |-> NoTime]
    /\ ev = NoEvent
    /\ acquired = FALSE
    /\ quits = 0
    /\ outcome = "none"
    /\ capture = "none"
    /\ live = 0
    /\ exc = "none"
    /\ origin = "none"
    /\ pre = NoTime
    /\ interrupted = FALSE
    /\ restarted = NoRestart

processVars == <<clock, mode, pc, schedVars, guardVars, excVars, pre, interrupted,
                 restarted>>

TrackerInit ==
    /\ Idle
    /\ pc = "tracker"
    /\ clock = 0
    /\ last = [k \in Kinds |-> NoTime]
    /\ db \in [Keys -> {Absent} \cup 0..MaxStored]
    /\ conn = "none"
    /\ call = NoCall
    /\ emitted = [k \in Kinds |-> 0]

\* UpdateTracker.__init__ (233-252) on the store file
TrackerOpen ==
    /\ pc = "tracker"
    /\ conn # "open"
    /\ conn' = "open"
    /\ db' = TrackerInitRows(db)
    /\ call' = [op |-> "init", ts |-> 0]
    /\ UNCHANGED <<processVars, emitted>>

\* UpdateTracker.update(ts) (272-276)
TrackerUpdateCall ==
    /\ pc = "tracker"
    /\ conn = "open"
    /\ \E ts \in 0..MaxTs :
          /\ db' = TrackerWrite(db, "last", ts)
          /\ call' = [op |-> "update", ts |-> ts]
    /\ UNCHANGED <<conn, processVars, emitted>>

\* UpdateTracker.login(ts) (278-282)
TrackerLoginCall ==
    /\ pc = "tracker"
    /\ conn = "open"
    /\ \E ts \in 0..MaxTs :
          /\ db' = TrackerWrite(db, "login", ts)
          /\ call' = [op |-> "login", ts |-> ts]
    /\ UNCHANGED <<conn, processVars, emitted>>

\* UpdateTracker.close (284-286)
TrackerCloseCall ==
    /\ pc = "tracker"
    /\ conn = "open"
    /\ conn' = "closed"
    /\ call' = [op |-> "close", ts |-> 0]
    /\ UNCHANGED <<db, processVars, emitted>>

TrackerNext ==
    \/ TrackerOpen
    \/ TrackerUpdateCall
    \/ TrackerLoginCall
    \/ TrackerCloseCall

TrackerSpec == TrackerInit /\ [][TrackerNext]_vars

(***************************************************************************)
(* StreamSpec: one _event_stream generator of either kind, built from a    *)
(* last_occured around the clamp and pulled entry by entry while the clock *)
(* moves, with the interval constants of the source.                       *)
(***************************************************************************)
StartClock == 1700000000

\* values of last_occured: never recorded, long ago, around the point where
\* last_occured + interval crosses the clock, just past, and in the future
StreamLast(kind) ==
    LET iv == SourceIntervals[kind] IN
    {0,
     StartClock - iv.base - iv.max_drift - 1,
     StartClock - iv.base - iv.max_drift,
     StartClock - iv.base - iv.min_drift - 1,
     StartClock - iv.base - iv.min_drift,
     StartClock - iv.base - iv.min_drift + 1,
     StartClock - 1,
     StartClock + 5}

StreamInit ==
    /\ Idle
    /\ pc = "stream"
    /\ clock = StartClock
    /\ \E k \in Kinds : \E t \in StreamLast(k) :
          last = [j \in Kinds |-> IF j = k THEN t ELSE NoTime]
    /\ db = [k \in Keys |-> Absent]
    /\ conn = "none"
    /\ call = NoCall
    /\ emitted = [k \in Kinds |-> 0]

streamFrame == <<db, conn, mode, pc, last, ev, guardVars, excVars, pre,
                 interrupted, restarted, call>>

\* the first next() on the generator: lines 303-304
StreamFirst ==
    /\ pc = "stream"
    /\ \E k \in Kinds :
          /\ last[k] # NoTime
          /\ head[k] = NoTime
          /\ \E r \in IntervalOf(SourceIntervals[k]) :
                head' = [head EXCEPT ![k] = EventStreamFirst(last[k], r, clock)]
          /\ emitted' = [emitted EXCEPT ![k] = 1]
    /\ UNCHANGED <<clock, streamFrame>>

\* a later next() on the generator: lines 305-307
StreamPull ==
    /\ pc = "stream"
    /\ \E k \in Kinds :
          /\ head[k] # NoTime
          /\ emitted[k] < MaxEmit
          /\ \E r \in IntervalOf(SourceIntervals[k]) :
                head' = [head EXCEPT ![k] = EventStreamNext(@, r, clock)]
          /\ emitted' = [emitted EXCEPT ![k] = @ + 1]
    /\ UNCHANGED <<clock, streamFrame>>

\* time passes between two next() calls: a second, or two update intervals
StreamClocks ==
    {StartClock, StartClock + 1, StartClock + 2 * UPDATE_INTERVAL}

StreamTick ==
    /\ pc = "stream"
    /\ \E t \in StreamClocks :
          /\ t > clock
          /\ clock' = t
    /\ UNCHANGED <<head, emitted, streamFrame>>

StreamNext ==
    \/ StreamFirst
    \/ StreamPull
    \/ StreamTick

StreamSpec == StreamInit /\ [][StreamNext]_vars

(***************************************************************************)
(* Properties.                                                             *)
(***************************************************************************)
InGuard == pc \in {"body", "guard_except", "guard_else", "guard_finally"}
AfterGuard == pc \in {"record", "recorded", "failed", "loop_exit", "closing", "exit"}
Raised == pc \in {"failed", "loop_exit", "closing", "exit"}

\* C1 (TrackerSpec): a stored value never decreases; update(ts) / login(ts)
\* store ts exactly when ts is greater than the stored value and otherwise
\* change nothing; __init__ inserts 0 for a missing row and leaves an
\* existing row as it is.
C1_TrackerMonotonic ==
    [][/\ \A k \in Keys : db[k] # Absent => db'[k] >= db[k]
       /\ call'.op = "update" =>
            db' = [db EXCEPT !["last"] = IF call'.ts > @ THEN call'.ts ELSE @]
       /\ call'.op = "login" =>
            db' = [db EXCEPT !["login"] = IF call'.ts > @ THEN call'.ts ELSE @]
       /\ call'.op = "init" =>
            db' = [k \in Keys |-> IF db[k] = Absent THEN 0 ELSE db[k]]
       /\ call'.op = "close" => db' = db]_vars

\* a smaller timestamp was written over a larger stored one, which stayed
C1_Witness ==
    /\ call.op = "update"
    /\ call.ts < db["last"]
    /\ db["login"] > 0

\* C2 (Spec): when a dispatch of kind k ends in the generic handler, the
\* tracker value of k is the one it had when the dispatch began, and the
\* loop's next step pulls the next entry of the merged sequence.
C2_FailedDispatchKeepsTracker ==
    /\ [](pc = "failed" => db[KeyOf(ev.what)] = pre)
    /\ [][pc = "failed" =>
            /\ pc' = "wait"
            /\ db' = db
            /\ head'[ev.what] > head[ev.what]
            /\ ev' = Entry(head', MergeMin(head'))]_vars

\* the tracker write itself failed, at a time later than the stored value
C2_Witness ==
    /\ pc = "failed"
    /\ origin = "tracker"
    /\ outcome = "ok"
    /\ pre < clock

\* C3 as claimed (Spec): after a successful dispatch of kind k the tracker
\* value of k equals the completion time, whatever the value stored before.
C3_RecordedEqualsCompletionTime ==
    pc = "recorded" => db[KeyOf(ev.what)] = clock

\* C3 amended (Spec): after a successful dispatch of kind k the tracker value
\* of k is the larger of the value stored before and the completion time.
C3_RecordedIsMaxOfStoredAndCompletion ==
    pc = "recorded" => db[KeyOf(ev.what)] = Max(pre, clock)

\* a dispatch succeeded at a clock value below the stored one
C3_Witness ==
    /\ pc = "recorded"
    /\ pre > clock

\* C4 (Spec): consecutive entries of the merged sequence are in ascending
\* order of `when`, and of two entries with the same `when` the REFRESH
\* entry comes first.
C4_MergedSequenceSorted ==
    [][(ev # NoEvent /\ ev' # ev) =>
          \/ ev'.when > ev.when
          \/ /\ ev'.when = ev.when
             /\ ev.what = "REFRESH"
             /\ ev'.what = "UPDATE"]_vars

\* a REFRESH entry is dispatched while the UPDATE stream's pending entry has
\* the same `when`, later than the entries the two streams start with
C4_Witness ==
    /\ pc = "acquire"
    /\ ev.what = "REFRESH"
    /\ head["UPDATE"] = ev.when
    /\ ev.when > MaxStart + 1

\* C5 (Spec): while the guard holds a session quit() has not been called;
\* once control has left the guard with a session acquired, quit() has been
\* called exactly once; without a session it is never called.
C5_ReleasedExactlyOnce ==
    /\ quits <= 1
    /\ ~acquired => quits = 0
    /\ (acquired /\ pc \in {"body", "guard_except", "guard_else"}) => quits = 0
    /\ (acquired /\ AfterGuard) => quits = 1

\* the executor raised an actor-class failure, the capture was cut short and
\* the cancellation left the loop, with the session released
C5_Witness ==
    /\ pc = "loop_exit"
    /\ acquired
    /\ IsWebDriverException(outcome)
    /\ capture = "failed"
    /\ exc = "KeyboardInterrupt"
    /\ quits = 1

\* C6 as claimed (Spec): once KeyboardInterrupt has been raised in the wait
\* or in a dispatch of update_loop, the loop is unwinding: it never reaches
\* the generic handler and dispatches nothing further.
C6_CancellationNeverSuppressed ==
    (mode = "update" /\ interrupted) =>
        pc \in {"guard_finally", "loop_exit", "closing", "exit"}

\* C7 (Spec): update_loop is left only with KeyboardInterrupt in flight; an
\* exception of class Exception raised by the executor, the guard or the
\* tracker write is held by the guard or by the generic handler, and the
\* process ends only after a cancellation, without an exception in flight.
C7_OnlyCancellationEndsLoop ==
    mode = "update" =>
        /\ pc = "loop_exit" => exc = "KeyboardInterrupt"
        /\ exc \in Failures => pc \in {"guard_except", "guard_finally", "failed"}
        /\ pc \in {"closing", "exit"} => (interrupted /\ exc = "none")

\* quit() raised after the executor had returned, and the handler holds it
C7_Witness ==
    /\ pc = "failed"
    /\ origin = "quit"
    /\ outcome = "ok"
    /\ exc \in Failures

LowOf(kind) == SourceIntervals[kind].base + SourceIntervals[kind].min_drift
HighOf(kind) == SourceIntervals[kind].base + SourceIntervals[kind].max_drift

\* C8 (StreamSpec): the first `when` of a stream is max(T0 + r, N) for some
\* r in [B+m, B+M]; it is N when T0 + B + M <= N, and T0 + r when
\* T0 + B + m > N.
C8_FirstWhenClamped ==
    [][\A k \in Kinds :
         (head[k] = NoTime /\ head'[k] # NoTime) =>
            /\ \E r \in LowOf(k)..HighOf(k) : head'[k] = Max(last[k] + r, clock)
            /\ last[k] + HighOf(k) <= clock => head'[k] = clock
            /\ last[k] + LowOf(k) > clock =>
                  /\ head'[k] > clock
                  /\ head'[k] - last[k] \in LowOf(k)..HighOf(k)]_vars

\* the UPDATE stream built from a tracker value of 0 started at the clock
C8_Witness ==
    /\ emitted["UPDATE"] = 1
    /\ last["UPDATE"] = 0
    /\ head["UPDATE"] = StartClock

\* C9 (StreamSpec): every later `when` of a stream is the previous one plus
\* some r in [B+m, B+M], whatever the clock shows; the UPDATE stream built
\* from 0 at 1700000000 has its second `when` in
\* [1700604810, 1700604860].
C9_LaterWhenFromPrevious ==
    [][\A k \in Kinds :
         (head[k] # NoTime /\ head'[k] # head[k]) =>
            /\ head'[k] > head[k]
            /\ head'[k] - head[k] \in LowOf(k)..HighOf(k)
            /\ (k = "UPDATE" /\ last[k] = 0 /\ emitted[k] = 1
                  /\ head[k] = 1700000000) =>
                  head'[k] \in 1700604810..1700604860]_vars

\* the second UPDATE entry lies before the clock: it was not clamped again
C9_Witness ==
    /\ emitted["UPDATE"] = 2
    /\ last["UPDATE"] = 0
    /\ head["UPDATE"] < clock
    /\ head["UPDATE"] >= StartClock + LowOf("UPDATE")

C11_OutcomePropagatesUnchanged ==
    /\ (outcome = "ok" /\ ~interrupted /\ AfterGuard) =>
          /\ capture = "logged"
          /\ quits = 1
          /\ origin \in {"none", "tracker"}
    /\ (outcome = "Exception" /\ ~interrupted /\ AfterGuard) =>
          /\ capture = "logged"
          /\ quits = 1
          /\ exc = "Exception"
          /\ origin = "executor"

\* C11 amended (Spec): the lower-severity log is written only when the
\* executor returned.  After a return the guarded block completes, with
\* the log written and the session released, unless a call of the log
\* statement or quit() raises or a signal arrives; that exception then
\* reaches the caller.  After an ordinary failure nothing is logged, the
\* session is released, and the failure reaches the caller unless quit()
\* raises or a signal arrives there.
C11_SuccessLoggedFailureNotLogged ==
    /\ outcome = "ok" =>
          /\ capture \in {"none", "logged"}
          /\ (pc = "guard_finally" /\ exc = "none") => capture = "logged"
          /\ AfterGuard =>
                /\ quits = 1
                /\ origin \in {"none", "log", "quit", "tracker", "signal"}
                /\ origin \in {"none", "tracker"} => capture = "logged"
                /\ origin = "log" => capture = "none"
    /\ outcome = "Exception" =>
          /\ capture = "none"
          /\ pc = "guard_finally" => (quits = 0 /\ exc = "Exception")
          /\ AfterGuard =>
                /\ quits = 1
                /\ origin \in {"executor", "quit", "signal"}
                /\ origin = "executor" => exc = "Exception"

\* an ordinary failure of the executor reached the generic handler after
\* the release, and nothing was logged by the guard
C11_Witness ==
    /\ pc = "failed"
    /\ outcome = "Exception"
    /\ origin = "executor"
    /\ exc = "Exception"
    /\ capture = "none"
    /\ quits = 1

\* the clock value each stream reads when SchedStart builds its first entry
StartRead(kind) == IF kind = "REFRESH" THEN clock ELSE clock'
ModelLow(kind) == ModelIntervals[kind].base + ModelIntervals[kind].min_drift
ModelHigh(kind) == ModelIntervals[kind].base + ModelIntervals[kind].max_drift

C13_ScheduleIndependentOfOutcome ==
    [][(pc \in {"recorded", "failed"} /\ pc' = "wait") =>
          /\ head[ev.what] = ev.when
          /\ \E r \in ModelLow(ev.what)..ModelHigh(ev.what) :
                head' = [head EXCEPT ![ev.what] = ev.when + r]
          /\ ev' = Entry(head', MergeMin(head'))
          /\ ev' # ev]_vars

\* a REFRESH entry later than any first entry is dispatched while the store
\* still holds 0 for it: the earlier REFRESH dispatch failed, and the loop
\* moved on to the entries after it
C13_Witness ==
    /\ restarted = NoRestart
    /\ pc = "acquire"
    /\ ev.what = "REFRESH"
    /\ db["login"] = 0
    /\ ev.when > Max(ModelHigh("REFRESH"), MaxStart + 1)

\* C14 as claimed (Spec): when the executor's wait for a page state times
\* out, the failure is an ordinary one: the except branch of the guard is
\* not entered and no screenshot is attempted, the dispatch ends in the
\* generic handler of the loop and the tracker keeps its value.
C14_TimeoutIsOrdinaryFailure ==
    outcome = "TimeoutException" =>
        /\ pc # "guard_except"
        /\ capture = "none"
        /\ (mode = "update" /\ AfterGuard /\ ~interrupted) =>
              (pc = "failed" /\ db[CurrentKey] = pre)

\* C15 as claimed (Spec): once a signal has raised KeyboardInterrupt in the
\* update loop, every further step of the process is a step of the
\* shutdown (the release of the session, the way out of update_loop, the
\* close of the tracker), and the process ends with the tracker closed, no
\* session live and no exception in flight.
C15_SignalShutsDownOrderly ==
    [][(mode = "update" /\ interrupted) =>
          /\ pc' \in {"guard_finally", "loop_exit", "closing", "exit"}
          /\ pc' = "exit" => (conn' = "closed" /\ live' = 0 /\ exc' = "none")]_vars

\* C16 (Spec): at most one browser session is live at any time, a session
\* is live only while its dispatch is inside the guard, and when the guard
\* is about to create a session none is live: the session of the previous
\* dispatch has been quit.
C16_OneSessionAtATime ==
    /\ live \in {0, 1}
    /\ live = 1 => (InGuard /\ acquired /\ quits = 0)
    /\ pc \in {"wait", "acquire"} => live = 0
    /\ (InGuard /\ acquired /\ quits = 0) => live = 1

\* a second dispatch holds its session after the session of the first one,
\* which was recorded, has been quit
C16_Witness ==
    /\ restarted = NoRestart
    /\ pc = "body"
    /\ live = 1
    /\ ev.what = "REFRESH"
    /\ db["login"] > MaxStored
    /\ ev.when > Max(ModelHigh("REFRESH"), MaxStart + 1)

\* C17 (Spec): when update_loop enters the guard for an entry and until the
\* executor is running, the clock that wall_clock_wait read is at or past
\* the entry's `when`, whatever the size of the clock's forward steps
\* during the wait; the wait returns only on such a reading.
C17_NoDispatchBeforeDue ==
    /\ [](mode = "update" /\ pc \in {"acquire", "body"} => clock >= ev.when)
    /\ [][(pc = "wait" /\ pc' = "acquire") => (clock >= ev.when /\ clock' = clock
                                                /\ ev' = ev)]_vars

\* an entry later than the first ones is dispatched on a clock reading more
\* than a second past its due time
C17_Witness ==
    /\ restarted = NoRestart
    /\ mode = "update"
    /\ pc = "acquire"
    /\ clock > ev.when + 1
    /\ ev.when > MaxStart + 1

\* C18 (Spec): in the update loop the store changes only in the tracker
\* write that ends a dispatch, and only in the row of the dispatched kind:
\* a REFRESH dispatch never changes 'last', an UPDATE dispatch never
\* changes 'login', and the wait, the guard and a dispatch that ends in the
\* generic handler change neither row.
C18_DispatchWritesOwnKeyOnly ==
    [][(mode = "update" /\ pc # "main") =>
          \A key \in Keys :
              db'[key] # db[key] =>
                  /\ pc = "record"
                  /\ key = KeyOf(ev.what)
                  /\ pc' \in {"recorded", "loop_exit"}]_vars

\* an UPDATE dispatch recorded its time in 'last' while 'login' still holds
\* the 0 it had before the REFRESH dispatches, all failed
C18_Witness ==
    /\ restarted = NoRestart
    /\ pc = "recorded"
    /\ ev.what = "UPDATE"
    /\ db["last"] = clock
    /\ db["last"] > pre
    /\ db["login"] = 0

\* C19 (Spec): entries are taken one at a time and none is dropped.  An
\* entry whose `when` the clock has reached is dispatched by the next step
\* of the loop, on the same clock reading, unless a signal ends the loop;
\* the wait is left only into the dispatch of the held entry or by a
\* signal; the loop takes another entry only after the dispatch of the
\* held one ended, and the stream of that kind then moves on by one
\* interval from the dispatched `when`, however far the clock is past it,
\* while the other stream keeps its pending entry.
C19_OverdueNotSkipped ==
    [][/\ (pc = "wait" /\ clock >= ev.when) =>
             \/ pc' = "acquire" /\ ev' = ev /\ clock' = clock
             \/ pc' = "loop_exit"
       /\ (pc = "wait" /\ pc' # "wait") => pc' \in {"acquire", "loop_exit"}
       /\ (mode = "update" /\ pc' = "acquire" /\ pc # "acquire") => pc = "wait"
       /\ (ev # NoEvent /\ ev' # ev) =>
             /\ pc \in {"recorded", "failed"}
             /\ \A k \in Kinds :
                   IF k = ev.what
                   THEN /\ head'[k] >= ev.when + ModelLow(k)
                        /\ head'[k] <= ev.when + ModelHigh(k)
                   ELSE head'[k] = head[k]]_vars

\* a REFRESH entry already overdue is dispatched on the same clock reading
\* on which the REFRESH dispatch before it was recorded
C19_Witness ==
    /\ restarted = NoRestart
    /\ pc = "acquire"
    /\ ev.what = "REFRESH"
    /\ ev.when < clock
    /\ pre = clock
    /\ pre > MaxStored

\* C20 (LiveSpec): in a run without a signal, whenever the loop waits,
\* the pending entry of each stream whose due time lies within the clock's
\* range is eventually dispatched, whatever the outcomes of the dispatches
\* before it: neither kind is held back by the other or by failures.
C20_EveryEntryEventuallyDispatched ==
    ([]~interrupted) =>
        \A k \in Kinds :
            (pc = "wait" /\ head[k] <= MaxClock) ~> (pc = "acquire" /\ ev.what = k)

\* in a run without a signal so far, an UPDATE entry is dispatched after
\* REFRESH entries whose dispatches all failed
C20_Witness ==
    /\ pc = "acquire"
    /\ ev.what = "UPDATE"
    /\ head["REFRESH"] > ev.when
    /\ db["login"] = 0
    /\ ~interrupted

====
